---- MODULE Spec2Model ----
(***************************************************************************)
(* Model of the action-dispatch and execution pipeline of agentsociety:    *)
(* the mobility blocks (PlaceSelectionBlock, MoveBlock, MobilityNoneBlock, *)
(* MobilityBlock) of cityagent/blocks/mobility_block.py and the social     *)
(* blocks of cityagent/blocks/social_block.py.                             *)
(*                                                                         *)
(* A forward call is a coroutine.  Short handlers are one action; the      *)
(* three oracle stages of PlaceSelectionBlock.forward and the retry loop   *)
(* of MoveBlock._random_poi are one action per stage / per iteration, the  *)
(* position of the coroutine being kept in pc.  The record call holds the  *)
(* frame of the running forward call and, once it has ended, its outcome   *)
(* (returned / raised), the ResultRecord and the external calls it made.   *)
(***************************************************************************)
EXTENDS Integers, Sequences, FiniteSets, TLC

VARIABLES
    pc,         \* position of the running coroutine, "idle" between calls
    position,   \* status["position"]["aoi_position"]["aoi_id"], NoId if absent
    count,      \* status["number_poi_visited"]
    map,        \* the map service: areas (poi_ids of each) and the inventory
    ctx,        \* the Context mapping shared by the behavior units
    stream,     \* length of the narrative log (memory.stream)
    friends,    \* status["friends"], a list of agent ids
    relationships,  \* status["relationships"], the items (id, score) in dict order
    chat_histories, \* status["chat_histories"], the entries kept for each target
    call,       \* frame and outcome of the current / last forward call
    consumed,   \* the entries of Context a behavior has read since they were written
    gm,         \* argument and outcome of the last call of gravity_model
    _content,   \* MemoryUnit._content of each instance, NoUnit before construction
    attributes, \* the instance attributes SELF_DEFINE_PREFIX + key of each instance
    properties, \* the property names set on the class MemoryUnit
    mu,         \* the last operation on a MemoryUnit: arguments and prior content
    _memories,  \* StateMemory._memories: the keys of the dict in insertion order
    sm          \* the last operation on the StateMemory: arguments and outcome

vars == <<pc, position, count, map, ctx, stream, friends, relationships,
          chat_histories, call, consumed, gm, _content, attributes, properties, mu,
          _memories, sm>>

mobility_vars == <<position, count, map>>
social_vars == <<friends, relationships, chat_histories>>
block_vars == <<pc, position, count, map, ctx, stream, friends, relationships,
                chat_histories, call, consumed>>
unit_vars == <<_content, attributes, properties, mu>>
state_vars == <<_memories, sm>>
lib_vars == <<gm, unit_vars, state_vars>>

----------------------------------------------------------------------------
(* Bounds of the model *)

MaxVisits == 1      \* cap of number_poi_visited
MaxStream == 1      \* cap of the narrative log length
MaxCands == 2       \* longest result list of query_pois
MaxChat == 1        \* cap of the entries of one chat history

----------------------------------------------------------------------------
(* Data *)

NoId == 0           \* Python None / absent key, for identifiers
AgentId == 7        \* status["id"]
HomeId == 1         \* status["home"]["aoi_position"]["aoi_id"]
WorkId == 2         \* status["work"]["aoi_position"]["aoi_id"]

Positions == {NoId, HomeId, WorkId, 3}
Targets == {1, 2, 3}    \* agent ids that occur in friends / relationships

\* A place of the map service is a dict with keys "name" and "id"
\* (gravity_model reads poi[0]["name"], poi[0]["id"]).
NameOf(id) == id + 10

NoPlace == [kind |-> "none", name |-> 0, id |-> 0]
\* the tuple (name, id)
Pair(id) == [kind |-> "pair", name |-> NameOf(id), id |-> id]
\* the dict {"name": .., "id": .., ...} as the map service returns it
Place(id) == [kind |-> "place", name |-> NameOf(id), id |-> id]

\* states of the map service: get_aoi() (the poi_ids of each area) and get_pois()
Maps ==
    { [aois |-> <<>>, pois |-> <<>>],
      [aois |-> << <<>> >>, pois |-> <<>>],
      [aois |-> << <<>>, <<3, 4>> >>, pois |-> <<3, 4>>] }

\* poi_cate: coarse category -> list of sub-categories
poi_cate == [c \in {"shopping", "leisure"} |->
                IF c = "shopping" THEN <<"bookstore", "mall">> ELSE <<"park">>]

Range(s) == {s[i] : i \in DOMAIN s}

----------------------------------------------------------------------------
(* The oracle.  A response is an error of the request, text that is not      *)
(* JSON, a JSON object without the expected key, or a JSON object with it.  *)

Resp(values) ==
    {[kind |-> k, val |-> v] : k \in {"error", "nonjson", "nokey"}, v \in {CHOOSE x \in values : TRUE}}
    \cup {[kind |-> "value", val |-> v] : v \in values}

PlaceTypeResp == Resp({"home", "workplace", "other", "school"})
LevelOneResp == Resp({"shopping", "leisure", "school"})
LevelTwoResp == Resp({"bookstore", "park"})
RadiusResp == Resp({1000, 20000})

\* json.loads(clean_json_response(response))["place_type"]: raises on a failed
\* request, on text that is not JSON and on a missing key
ParseField(r) == [ok |-> r.kind = "value", val |-> r.val]

----------------------------------------------------------------------------
(* ResultRecord and call frame *)

NoResult ==
    [success |-> FALSE, consumed_time |-> 0, node_id |-> NoId, to_place |-> NoId,
     target |-> NoId, mode |-> "", message |-> ""]

Blank ==
    [op |-> "", entry |-> "", outcome |-> "", exc |-> "", result |-> NoResult,
     failed |-> FALSE, appends |-> 0, sched |-> <<>>, incs |-> 0,
     sent |-> <<>>, nested |-> FALSE, target |-> NoId, count0 |-> 0,
     target0 |-> NoId, selection_requests |-> 0, history |-> {}, units |-> <<>>,
     requests |-> 0, produced |-> {}, consumes |-> "", again |-> FALSE,
     found |-> NoResult, fault |-> "",
     resp |-> "", kind |-> "", dest |-> NoId, aoi |-> 0,
     l1 |-> "", l2 |-> "", radius |-> 0, prefix |-> "", qempty |-> FALSE,
     top_outcome |-> "", top_result |-> NoResult]

\* the frame of a forward call that starts; count0 is number_poi_visited and
\* target0 is context["target"] then, units are the behavior units the
\* coordinator has awaited forward of
Frame(op, entry) ==
    [Blank EXCEPT !.op = op, !.entry = entry, !.outcome = "running", !.count0 = count,
                  !.target0 = ctx.target, !.units = <<op>>]

\* exceptions raised by the blocks' own code, not by a collaborator
InternalErrors == {"KeyError:plan", "KeyError:1", "IndexError", "ValueError"}

Raise(c, e) ==
    [c EXCEPT !.outcome = "raised", !.exc = e, !.failed = @ \/ e \notin InternalErrors]
\* a collaborator (oracle, map service, memory store, environment, transport)
\* has failed during the call, whether or not the failure was caught
Failed(c) == [c EXCEPT !.failed = TRUE]
Return(c, r) == [c EXCEPT !.outcome = "returned", !.result = r]

\* context.get(key) has given the behavior of frame c an entry to act on;
\* again: an earlier behavior execution has read the same entry
Consume(c, key) == [c EXCEPT !.consumes = key, !.again = key \in consumed]
\* context[key] = ... by the behavior of frame c
Produce(c, key) == [c EXCEPT !.produced = @ \cup {key}]
\* the entries read and not overwritten since, after the step that leaves frame c
Track(c) ==
    (consumed \ c.produced) \cup (IF c.consumes = "" THEN {} ELSE {c.consumes})

\* a call site that sends a failed request once more
atext_request_retry(c, r) ==
    [c EXCEPT !.requests = @ + (IF r.kind = "error" THEN 2 ELSE 1)]

\* "await self.llm.atext_request(...)" at one call site, answered by r: one
\* request is issued, whatever the answer
atext_request(c, r) ==
    [c EXCEPT !.requests = @ + 1]

\* MobilityBlock.forward after "await selected_block.forward(step, context)":
\* the result is returned as it is, an exception leaves forward
MobilityBlock_return(c) ==
    [c EXCEPT !.top_outcome = c.outcome, !.top_result = c.result]

\* SocialBlock.forward returning a record of its own with the unit's success
SocialBlock_return_rebuilt(c) ==
    [c EXCEPT !.top_outcome = "returned",
              !.top_result = [NoResult EXCEPT
                                 !.success = c.outcome = "returned" /\ c.result.success,
                                 !.consumed_time = 15,
                                 !.node_id = NoId]]

\* SocialBlock.forward after "await selected_block.forward(step, context)":
\* the result is returned as it is, "except Exception" returns the generic record
SocialBlock_return(c) ==
    IF c.outcome = "raised"
    THEN [c EXCEPT !.top_outcome = "returned",
                   !.top_result = [NoResult EXCEPT !.success = FALSE,
                                                   !.consumed_time = 15,
                                                   !.node_id = NoId]]
    ELSE [c EXCEPT !.top_outcome = c.outcome, !.top_result = c.result]

\* the coordinator's part once its behavior unit has ended
End(c) ==
    IF c.outcome = "running" THEN c
    ELSE IF c.entry = "MobilityBlock" THEN MobilityBlock_return(c)
    ELSE SocialBlock_return(c)

----------------------------------------------------------------------------
(* MoveBlock *)

\* MoveBlock._get_place_type: the parsed place_type, "home" on any exception
_get_place_type(r) == IF ParseField(r).ok THEN ParseField(r).val ELSE "home"

_stationary_result(place_id) ==
    [NoResult EXCEPT !.success = TRUE, !.to_place = place_id, !.consumed_time = 0]

_mobility_result(place_id, time) ==
    [NoResult EXCEPT !.success = TRUE, !.to_place = place_id, !.consumed_time = time]

\* _increment_poi_counter without the update
_increment_poi_counter_lost(c, f) ==
    IF f \in {"get:number_poi_visited", "update:number_poi_visited"}
    THEN Raise(c, f)
    ELSE c

\* MoveBlock._increment_poi_counter: status.get then status.update(count + 1)
_increment_poi_counter(c, f) ==
    IF f \in {"get:number_poi_visited", "update:number_poi_visited"}
    THEN Raise(c, f)
    ELSE [c EXCEPT !.incs = @ + 1]

\* simulator.set_aoi_schedules(agent_id, place_id); the call is recorded
\* whether or not it raises
set_aoi_schedules(c, place_id, f) ==
    LET c1 == [c EXCEPT !.sched = Append(@, <<AgentId, place_id>>)]
    IN  IF f = "set_aoi_schedules" THEN Raise(c1, f) ELSE c1

_move_home(c, f) ==
    IF f \in {"get:home", "get:position"} THEN Raise(c, f)
    ELSE LET c0 == [c EXCEPT !.dest = HomeId] IN
         IF position = HomeId THEN Return(c0, _stationary_result(HomeId))
         ELSE LET c1 == set_aoi_schedules(c0, HomeId, f)
                  c2 == IF c1.outcome = "raised" THEN c1 ELSE _increment_poi_counter(c1, f)
              IN  IF c2.outcome = "raised" THEN c2
                  ELSE Return(c2, _mobility_result(HomeId, 45))

_move_work(c, f) ==
    IF f \in {"get:work", "get:position"} THEN Raise(c, f)
    ELSE LET c0 == [c EXCEPT !.dest = WorkId] IN
         IF position = WorkId THEN Return(c0, _stationary_result(WorkId))
         ELSE LET c1 == set_aoi_schedules(c0, WorkId, f)
                  c2 == IF c1.outcome = "raised" THEN c1 ELSE _increment_poi_counter(c1, f)
              IN  IF c2.outcome = "raised" THEN c2
                  ELSE Return(c2, _mobility_result(WorkId, 45))

\* _move_custom from "await self.simulator.set_aoi_schedules(agent_id, next_place[1])" on:
\* next_place[1] is the id of a (name, id) tuple and a KeyError on a place dict
_move_custom_tail(c, next_place, f) ==
    IF next_place.kind # "pair" THEN Raise(c, "KeyError:1")
    ELSE LET c0 == [c EXCEPT !.dest = next_place.id]
             c1 == set_aoi_schedules(c0, next_place.id, f)
             c2 == IF c1.outcome = "raised" THEN c1 ELSE _increment_poi_counter(c1, f)
         IN  IF c2.outcome = "raised" THEN c2
             ELSE Return(c2, _mobility_result(next_place.id, 45))

\* _move_custom up to the loop of _random_poi: the frame stays "running" when
\* Context holds no next_place and get_aoi has answered
_move_custom(c, f) ==
    IF ctx.next_place = NoPlace
    THEN IF f = "get_aoi" THEN Raise(c, f) ELSE c
    ELSE _move_custom_tail(Consume(c, "next_place"), ctx.next_place, f)

MoveFailures ==
    {"none", "get:id", "get:home", "get:work", "get:position", "set_aoi_schedules",
     "get:number_poi_visited", "update:number_poi_visited", "get_aoi"}

\* MoveBlock.forward
MoveBlock_body(c, r, f) ==
    IF f = "get:id" THEN Raise(c, f)
    ELSE IF ~ctx.plan THEN Raise(c, "KeyError:plan")
    ELSE LET response == _get_place_type(r)
             c0 == [atext_request(c, r) EXCEPT !.resp = r.kind, !.kind = response,
                                               !.failed = (r.kind = "error")]
         IN  IF response = "home" THEN _move_home(c0, f)
             ELSE IF response = "workplace" THEN _move_work(c0, f)
             ELSE _move_custom(c0, f)

MoveBlock_begin(entry) ==
    /\ pc = "idle"
    /\ \E r \in PlaceTypeResp, f \in MoveFailures :
         LET c == MoveBlock_body(Frame("MoveBlock", entry), r, f) IN
         /\ count + c.incs <= MaxVisits
         /\ call' = End(c)
         /\ count' = count + c.incs
         /\ pc' = IF c.outcome = "running" THEN "random_poi" ELSE "idle"
    /\ consumed' = Track(call')
    /\ UNCHANGED <<position, map, ctx, stream, social_vars, lib_vars>>

\* _random_poi, random.choice(aois) on an empty list: IndexError
RandomPoiNoArea ==
    /\ pc = "random_poi"
    /\ map.aois = <<>>
    /\ call' = End(Raise(call, "IndexError"))
    /\ pc' = "idle"
    /\ consumed' = Track(call')
    /\ UNCHANGED <<position, count, map, ctx, stream, social_vars, lib_vars>>

\* _random_poi, one iteration that draws an area without points of interest;
\* aoi is the area drawn, its sign changes with every iteration
RandomPoiRetry ==
    /\ pc = "random_poi"
    /\ \E i \in DOMAIN map.aois :
         /\ map.aois[i] = <<>>
         /\ call' = [call EXCEPT !.aoi = IF @ > 0 THEN -i ELSE i]
    /\ consumed' = Track(call')
    /\ UNCHANGED <<pc, position, count, map, ctx, stream, social_vars, lib_vars>>

\* _random_poi, the iteration that draws an area with points of interest,
\* and the rest of _move_custom with the place get_poi returns
RandomPoiFound ==
    /\ pc = "random_poi"
    /\ \E i \in DOMAIN map.aois :
         /\ map.aois[i] # <<>>
         /\ \E poi_id \in Range(map.aois[i]),
               f \in {"none", "get_poi", "set_aoi_schedules",
                      "get:number_poi_visited", "update:number_poi_visited"} :
              LET c0 == [call EXCEPT !.aoi = 0]
                  c == IF f = "get_poi" THEN Raise(c0, f)
                       ELSE _move_custom_tail(c0, Place(poi_id), f)
              IN  /\ count + c.incs <= MaxVisits
                  /\ call' = End(c)
                  /\ count' = count + c.incs
    /\ pc' = "idle"
    /\ consumed' = Track(call')
    /\ UNCHANGED <<position, map, ctx, stream, social_vars, lib_vars>>

----------------------------------------------------------------------------
(* MobilityNoneBlock *)

\* memory.stream.add_mobility / add_social: the node id is the new length
Narrate(c) == [c EXCEPT !.appends = @ + 1]
NodeId(c) == stream + c.appends

MobilityNoneBlock_body(c, f) ==
    IF f = "add_mobility" THEN Raise(c, f)
    ELSE LET c1 == Narrate(c) IN
         Return(c1, [NoResult EXCEPT !.success = TRUE, !.consumed_time = 0,
                                     !.node_id = NodeId(c1)])

MobilityNoneBlock_begin(entry) ==
    /\ pc = "idle"
    /\ \E f \in {"none", "add_mobility"} :
         LET c == MobilityNoneBlock_body(Frame("MobilityNoneBlock", entry), f) IN
         /\ stream + c.appends <= MaxStream
         /\ call' = End(c)
         /\ stream' = stream + c.appends
    /\ consumed' = Track(call')
    /\ UNCHANGED <<pc, position, count, map, ctx, social_vars, lib_vars>>

----------------------------------------------------------------------------
(* gravity_model: the candidates the second pass gives an entry of res to.   *)

Distances == {500, 9500, 12000}

\* the ring d of 1..10 with (d - 1) * 1000 <= distance < d * 1000, 0 for "more"
RingOf(distance) ==
    IF \E d \in 1..10 : (d - 1) * 1000 <= distance /\ distance < d * 1000
    THEN CHOOSE d \in 1..10 : (d - 1) * 1000 <= distance /\ distance < d * 1000
    ELSE 0

\* Weights are exact rationals [num, den].  The constant factor 1 / (pi * 10^6)
\* of every ring area S is left out of all weights: it cancels in the
\* normalisation item[2] / total_weight.
RECURSIVE GCD(_, _)
GCD(a, b) == IF b = 0 THEN a ELSE GCD(b, a % b)
LCM(a, b) == (a \div GCD(a, b)) * b

RatAdd(x, y) ==
    LET den == LCM(x.den, y.den)
    IN  [num |-> x.num * (den \div x.den) + y.num * (den \div y.den), den |-> den]

\* x / y for y # 0, in lowest terms
RatDiv(x, y) ==
    LET g == GCD(x.den, y.den)
        num == x.num * (y.den \div g)
        den == (x.den \div g) * y.num
        h == GCD(num, den)
    IN  [num |-> num \div h, den |-> den \div h]

\* sum(item[2] for item in items)
RECURSIVE total_weight(_)
total_weight(items) ==
    IF items = <<>> THEN [num |-> 0, den |-> 1]
    ELSE RatAdd(items[1].weight, total_weight(Tail(items)))

\* x < y
RatLess(x, y) ==
    LET g == GCD(x.den, y.den)
    IN  x.num * (y.den \div g) < y.num * (x.den \div g)

\* the number of all pois of the list, whatever their ring
RingCount_all(pois, d) == Len(pois)

\* number of pois of the list in ring d: len(pois_Dis[f"{d}k"])
RingCount(pois, d) == Cardinality({j \in DOMAIN pois : RingOf(pois[j][2]) = d})

\* S = math.pi * ((d * 1000) ** 2 - ((d - 1) * 1000) ** 2), in units of
\* pi * 10^6 square metres
RingArea(d) == d * d - (d - 1) * (d - 1)

\* res: one entry (name, id, weight, distance) for each poi the loop over
\* range(1, 11) finds a ring for; density = n / S, weight = density / distance^2
gravity_res(pois) ==
    LET InRing(poi) == RingOf(poi[2]) # 0
        classified == SelectSeq(pois, InRing)
        dist(poi) == IF poi[2] > 1 THEN poi[2] ELSE 1
        density(poi) == [num |-> RingCount(pois, RingOf(poi[2])),
                         den |-> RingArea(RingOf(poi[2]))]
    IN  [i \in DOMAIN classified |->
            [name |-> NameOf(classified[i][1]), id |-> classified[i][1],
             density |-> density(classified[i]),
             weight |-> [num |-> density(classified[i]).num,
                         den |-> density(classified[i]).den
                                    * dist(classified[i]) * dist(classified[i])],
             distance |-> dist(classified[i])]]

\* size of the sample np.random.choice draws (size=50 in the code)
SampleSize == 3

\* the draws np.random.choice(len(res), size, p=distanceProb) can make: every
\* entry of res has a positive probability 1 / sqrt(distance)
Samples(res) == [1..SampleSize -> DOMAIN res]

NoCall == [pois |-> <<>>, outcome |-> "", exc |-> "", res |-> <<>>, out |-> <<>>]

\* gravity_model(pois) with the sample drawn; np.random.choice(0, size=50)
\* raises ValueError when res is empty
gravity_model(pois, sample_indices) ==
    LET res == gravity_res(pois) IN
    IF res = <<>>
    THEN [pois |-> pois, outcome |-> "raised", exc |-> "ValueError", res |-> res,
          out |-> <<>>]
    ELSE LET sampled_pois == [k \in DOMAIN sample_indices |-> res[sample_indices[k]]]
             total == total_weight(sampled_pois)
         IN  [pois |-> pois, outcome |-> "returned", exc |-> "", res |-> res,
              out |-> [k \in DOMAIN sampled_pois |->
                         [sampled_pois[k] EXCEPT !.weight = RatDiv(@, total)]]]

\* candidate lists as query_pois returns them: (place id, distance) each
GravityDistances == {0, 500, 1500, 12000}
\* two places 500 m away and one 9500 m away
NearNearFar == << <<3, 500>>, <<4, 500>>, <<3, 9500>> >>
Candidates ==
    UNION {[1..n -> {3, 4} \X GravityDistances] : n \in 1..MaxCands} \cup {NearNearFar}

\* the call of gravity_model on the argument gm.pois
GravityCall ==
    /\ gm.outcome = ""
    /\ gm.pois # <<>>
    /\ LET res == gravity_res(gm.pois) IN
       \E sample_indices \in IF res = <<>> THEN {<<>>} ELSE Samples(res) :
          gm' = gravity_model(gm.pois, sample_indices)
    /\ UNCHANGED <<block_vars, unit_vars, state_vars>>

----------------------------------------------------------------------------
(* MemoryUnit (pycityagent/memory/memory_base.py) *)

Units == {1, 2}             \* the MemoryUnit instances
TIME_STAMP_KEY == "timestamp"
Keys == {"motion", TIME_STAMP_KEY}

\* values are tagged with their Python type; Absent: the key is not in the dict
Absent == [type |-> "absent", val |-> 0]
Values == {[type |-> "int", val |-> 1], [type |-> "str", val |-> 1]}
\* time.time() at two moments
Times == {[type |-> "float", val |-> 1], [type |-> "float", val |-> 2]}

Empty == [k \in Keys |-> Absent]
\* the dicts passed as content
Dicts ==
    {d \in [Keys -> Values \cup {Absent}] : d[TIME_STAMP_KEY].type \in {"absent", "int"}}
KeysOf(d) == {k \in Keys : d[k] # Absent}

NoUnit == [made |-> FALSE, activate_timestamp |-> FALSE, dict |-> Empty]
NoOp == [op |-> "", unit |-> 0, content |-> Empty, before |-> Empty, warned |-> FALSE]

\* no instance has been constructed
NoUnits ==
    /\ _content = [u \in Units |-> NoUnit]
    /\ attributes = [u \in Units |-> Empty]
    /\ properties = {}
    /\ mu = NoOp

\* self._content.update(content) that keeps the prior value on a type mismatch
dict_update_typed(old, content) ==
    [k \in Keys |-> IF content[k] # Absent
                        /\ (old[k] = Absent \/ old[k].type = content[k].type)
                    THEN content[k] ELSE old[k]]

\* self._content.update(content)
dict_update(old, content) ==
    [k \in Keys |-> IF content[k] # Absent THEN content[k] ELSE old[k]]

\* the loop over content.items() of update: a warning is logged for a key of
\* _content whose value changes its type
TypeWarning(old, content) ==
    \E k \in KeysOf(content) : old[k] # Absent /\ old[k].type # content[k].type

\* "for _prop, _value in self._content.items(): self._set_attribute(_prop, _value)"
\* on instance u: _set_attribute sets the instance attribute and, when the
\* instance has no such attribute yet, _create_property sets the property on
\* the class
SetAttributes(u, d) ==
    /\ attributes' = [attributes EXCEPT ![u] = dict_update(@, d)]
    /\ properties' = properties \cup {k \in KeysOf(d) : attributes[u][k] = Absent}

\* MemoryUnit.__init__(content, required_attributes, activate_timestamp);
\* required_attributes is merged into content
MemoryUnit_init(u) ==
    /\ ~_content[u].made
    /\ \E content \in Dicts, activate_timestamp \in BOOLEAN, now \in Times :
         LET stamped == IF activate_timestamp /\ content[TIME_STAMP_KEY] = Absent
                        THEN [content EXCEPT ![TIME_STAMP_KEY] = now]
                        ELSE content
         IN  /\ _content' = [_content EXCEPT ![u] =
                    [made |-> TRUE, activate_timestamp |-> activate_timestamp,
                     dict |-> stamped]]
             /\ SetAttributes(u, stamped)
             /\ mu' = [NoOp EXCEPT !.op = "__init__", !.unit = u, !.content = content]
    /\ UNCHANGED <<block_vars, gm, state_vars>>

\* MemoryUnit.update(content)
MemoryUnit_update(u) ==
    /\ _content[u].made
    /\ \E content \in Dicts, now \in Times :
         LET old == _content[u].dict
             new == dict_update(old, content)
         IN  /\ _content' = [_content EXCEPT ![u].dict = new]
             /\ SetAttributes(u, IF _content[u].activate_timestamp
                                 THEN [new EXCEPT ![TIME_STAMP_KEY] = now]
                                 ELSE new)
             /\ mu' = [op |-> "update", unit |-> u, content |-> content,
                       before |-> old, warned |-> TypeWarning(old, content)]
    /\ UNCHANGED <<block_vars, gm, state_vars>>

\* MemoryUnit.clear()
MemoryUnit_clear(u) ==
    /\ _content[u].made
    /\ _content' = [_content EXCEPT ![u].dict = Empty]
    /\ mu' = [NoOp EXCEPT !.op = "clear", !.unit = u, !.before = _content[u].dict]
    /\ UNCHANGED <<block_vars, gm, state_vars, attributes, properties>>

----------------------------------------------------------------------------
(* StateMemory and MemoryBase: the memory is the list of the keys of the     *)
(* dict _memories, which Python keeps in insertion order.  A unit is a       *)
(* MemoryUnit instance, hashed and compared by identity.                     *)

\* the longest msg passed to add and load
MaxMsg == 2

\* the MemoryUnit instances handed to the StateMemory
StateUnits == 1 .. 3

\* the index arguments of pop
Indices == -(Cardinality(StateUnits) + 1) .. Cardinality(StateUnits) + 1

\* recent_n: None, or an int
None == [none |-> TRUE, n |-> 0]
Recents == {None} \cup {[none |-> FALSE, n |-> n] : n \in 0 .. Cardinality(StateUnits) + 1}

\* msg: a single MemoryUnit or a sequence of MemoryUnits
Msgs ==
    {[single |-> TRUE, units |-> <<u>>] : u \in StateUnits}
        \cup {[single |-> FALSE, units |-> q] :
                q \in UNION {[1 .. n -> StateUnits] : n \in 0 .. MaxMsg}}

\* convert_msg_to_sequence: a single unit becomes a list of one unit
convert_msg_to_sequence(msg) == IF msg.single THEN <<msg.units[1]>> ELSE msg.units

NoStateOp ==
    [op |-> "", msg |-> [single |-> FALSE, units |-> <<>>], reset_memory |-> FALSE,
     index |-> 0, recent_n |-> None, before |-> <<>>,
     outcome |-> "", exc |-> "", result |-> <<>>]

\* MemoryBase.__init__
NoState ==
    /\ _memories = <<>>
    /\ sm = NoStateOp

\* unit in _memories
In(unit, list) == \E i \in DOMAIN list : list[i] = unit

\* list[index] of Python without the IndexError: every index is taken modulo
\* a length of at least one
list_index_wrapped(list, index) ==
    [error |-> Len(list) = 0,
     pos |-> IF Len(list) = 0 THEN 0 ELSE (index % Len(list)) + 1]

\* list[index] of Python: the position (from 1) of the element, or IndexError
list_index(list, index) ==
    LET i == IF index < 0 THEN index + Len(list) ELSE index
    IN  [error |-> i < 0 \/ i >= Len(list), pos |-> i + 1]

\* list[start:] of Python, where -0 is 0
list_from(list, start) ==
    LET s == IF start < 0
             THEN (IF Len(list) + start < 0 THEN 0 ELSE Len(list) + start)
             ELSE (IF start > Len(list) THEN Len(list) ELSE start)
    IN  SubSeq(list, s + 1, Len(list))

\* dict.pop(key) on the keys
dict_pop(list, pos) == SubSeq(list, 1, pos - 1) \o SubSeq(list, pos + 1, Len(list))

\* the loop of StateMemory.add that stores every unit, present or not
RECURSIVE add_again(_, _)
add_again(list, units) ==
    IF units = <<>> THEN list
    ELSE add_again(Append(list, Head(units)), Tail(units))

\* the loop of StateMemory.add over the units of msg
RECURSIVE add(_, _)
add(list, units) ==
    IF units = <<>> THEN list
    ELSE add(IF In(Head(units), list) THEN list ELSE Append(list, Head(units)),
             Tail(units))

\* StateMemory.add
StateMemory_add ==
    /\ \E msg \in Msgs :
         /\ _memories' = add(_memories, convert_msg_to_sequence(msg))
         /\ sm' = [NoStateOp EXCEPT !.op = "add", !.msg = msg, !.before = _memories,
                                    !.outcome = "returned"]
    /\ UNCHANGED <<block_vars, gm, unit_vars>>

\* StateMemory.pop
StateMemory_pop ==
    /\ \E index \in Indices :
         LET at == list_index(_memories, index)
             frame == [NoStateOp EXCEPT !.op = "pop", !.index = index,
                                        !.before = _memories]
         IN  IF at.error
             THEN /\ _memories' = _memories
                  /\ sm' = [frame EXCEPT !.outcome = "raised", !.exc = "ValueError"]
             ELSE /\ _memories' = dict_pop(_memories, at.pos)
                  /\ sm' = [frame EXCEPT !.outcome = "returned",
                                         !.result = <<_memories[at.pos]>>]
    /\ UNCHANGED <<block_vars, gm, unit_vars>>

\* StateMemory.load
StateMemory_load ==
    /\ \E msg \in Msgs, reset_memory \in BOOLEAN :
         /\ _memories' = add(IF reset_memory THEN <<>> ELSE _memories,
                             convert_msg_to_sequence(msg))
         /\ sm' = [NoStateOp EXCEPT !.op = "load", !.msg = msg,
                                    !.reset_memory = reset_memory,
                                    !.before = _memories, !.outcome = "returned"]
    /\ UNCHANGED <<block_vars, gm, unit_vars>>

\* StateMemory.reset
StateMemory_reset ==
    /\ _memories' = <<>>
    /\ sm' = [NoStateOp EXCEPT !.op = "reset", !.before = _memories,
                               !.outcome = "returned"]
    /\ UNCHANGED <<block_vars, gm, unit_vars>>

\* MemoryBase._fetch_recent_memory
_fetch_recent_memory(list, recent_n) ==
    IF recent_n.none THEN list ELSE list_from(list, -recent_n.n)

\* a call of MemoryBase._fetch_recent_memory(recent_n)
StateMemory_fetch ==
    /\ \E recent_n \in Recents :
         sm' = [NoStateOp EXCEPT !.op = "_fetch_recent_memory", !.recent_n = recent_n,
                                 !.before = _memories, !.outcome = "returned",
                                 !.result = _fetch_recent_memory(_memories, recent_n)]
    /\ UNCHANGED <<_memories, block_vars, gm, unit_vars>>

\* the properties StateMemory.motion and StateMemory.position up to the
\* attribute of the unit: result is the unit whose attribute is read
StateMemory_read ==
    /\ \E name \in {"motion", "position"} :
         LET units == _fetch_recent_memory(_memories, None)
             at == list_index(units, -1)
             frame == [NoStateOp EXCEPT !.op = name, !.before = _memories]
         IN  sm' = IF at.error
                   THEN [frame EXCEPT !.outcome = "raised", !.exc = "IndexError"]
                   ELSE [frame EXCEPT !.outcome = "returned",
                                      !.result = <<units[at.pos]>>]
    /\ UNCHANGED <<_memories, block_vars, gm, unit_vars>>

----------------------------------------------------------------------------
(* PlaceSelectionBlock *)

\* Stage 1 up to sub_category: get_poi_cate, context["plan"], the request and
\* poi_cate[levelOneType], random.choice(list(poi_cate.keys())) on any exception
PlaceSelectionBlock_begin(entry) ==
    /\ pc = "idle"
    /\ \E f \in {"none", "get_poi_cate"}, r \in LevelOneResp, fallback \in DOMAIN poi_cate :
         LET c == Frame("PlaceSelectionBlock", entry) IN
         IF f = "get_poi_cate" THEN call' = End(Raise(c, f)) /\ pc' = "idle"
         ELSE IF ~ctx.plan THEN call' = End(Raise(c, "KeyError:plan")) /\ pc' = "idle"
         ELSE LET levelOneType ==
                      IF ParseField(r).ok /\ ParseField(r).val \in DOMAIN poi_cate
                      THEN ParseField(r).val ELSE fallback
              IN  /\ call' = [atext_request(c, r) EXCEPT !.l1 = levelOneType,
                                                         !.failed = (r.kind = "error")]
                  /\ pc' = "stage2"
    /\ consumed' = Track(call')
    /\ UNCHANGED <<position, count, map, ctx, stream, social_vars, lib_vars>>

\* Stage 2: the request, random.choice(sub_category) on any exception
PlaceSelectionStage2 ==
    /\ pc = "stage2"
    /\ \E r \in LevelTwoResp, fallback \in Range(poi_cate[call.l1]) :
         LET levelTwoType == IF ParseField(r).ok THEN ParseField(r).val ELSE fallback
         IN  call' = [atext_request(call, r) EXCEPT !.l2 = levelTwoType,
                                                    !.failed = @ \/ r.kind = "error"]
    /\ pc' = "radius"
    /\ consumed' = Track(call')
    /\ UNCHANGED <<position, count, map, ctx, stream, social_vars, lib_vars>>

\* Radius: status reads and the request, int(json.loads(radius)["radius"]),
\* 10000 on any exception
PlaceSelectionRadius ==
    /\ pc = "radius"
    /\ \E f \in {"none", "get:emotion_types", "get:thought"}, r \in RadiusResp :
         LET radius == IF f = "none" /\ ParseField(r).ok THEN ParseField(r).val ELSE 10000
             c == IF f = "none" THEN atext_request(call, r) ELSE call
         IN  call' = [c EXCEPT !.radius = radius,
                               !.failed = @ \/ f # "none" \/ r.kind = "error"]
    /\ pc' = "query"
    /\ consumed' = Track(call')
    /\ UNCHANGED <<position, count, map, ctx, stream, social_vars, lib_vars>>

\* results of query_pois: distinct places of the inventory, each with its
\* distance, within the radius
QueryResults(radius) ==
    LET cand == {<<id, d>> : id \in Range(map.pois), d \in {x \in Distances : x <= radius}}
    IN  {q \in UNION {[1..n -> cand] : n \in 0..MaxCands} :
            \A i, j \in DOMAIN q : i # j => q[i][1] # q[j][1]}

\* the results of query_pois that make a difference when call f raises: none
\* is looked at when the position cannot be read, only whether there is one
\* when query_pois raises, and get_pois is called after an empty result only
QueryCases(f, radius) ==
    IF f = "get:position" \/ f = "get_pois" THEN {<<>>}
    ELSE IF f = "query_pois" THEN {q \in QueryResults(radius) : Len(q) <= 1}
    ELSE QueryResults(radius)

\* From the position read to the return: query_pois, gravity_model and the
\* draw, or get_pois and random.choice; context["next_place"]; add_mobility
PlaceSelectionQuery ==
    /\ pc = "query"
    /\ \E f \in {"none", "get:position", "query_pois", "get_pois", "add_mobility"} :
       \E pois \in QueryCases(f, call.radius) :
         LET c == [call EXCEPT !.prefix = call.l2, !.qempty = (pois = <<>>)]
             Publish(next_place) ==
                 /\ ctx' = [ctx EXCEPT !.next_place = next_place]
                 /\ IF f = "add_mobility"
                    THEN call' = End(Raise([Produce(c, "next_place") EXCEPT
                                                !.dest = next_place.id], f))
                         /\ UNCHANGED stream
                    ELSE LET c1 == Narrate([Produce(c, "next_place") EXCEPT
                                               !.dest = next_place.id]) IN
                         /\ stream + 1 <= MaxStream
                         /\ call' = End(Return(c1, [NoResult EXCEPT !.success = TRUE,
                                                       !.consumed_time = 5,
                                                       !.node_id = NodeId(c1)]))
                         /\ stream' = stream + 1
         IN  IF f = "get:position" THEN call' = End(Raise(call, f)) /\ UNCHANGED <<ctx, stream>>
             ELSE IF f = "query_pois" THEN call' = End(Raise(c, f)) /\ UNCHANGED <<ctx, stream>>
             ELSE IF pois # <<>>
             THEN LET res == gravity_res(pois) IN
                  IF res = <<>>
                  THEN call' = End(Raise(c, "ValueError")) /\ UNCHANGED <<ctx, stream>>
                  ELSE \E selected \in DOMAIN res : Publish(Pair(res[selected].id))
             ELSE IF f = "get_pois" THEN call' = End(Raise(c, f)) /\ UNCHANGED <<ctx, stream>>
             ELSE IF map.pois = <<>>
             THEN call' = End(Raise(c, "IndexError")) /\ UNCHANGED <<ctx, stream>>
             ELSE \E p \in Range(map.pois) : Publish(Place(p))
    /\ pc' = "idle"
    /\ consumed' = Track(call')
    /\ UNCHANGED <<position, count, map, social_vars, lib_vars>>

----------------------------------------------------------------------------
(* MobilityBlock *)

\* BlockDispatcher.dispatch over the blocks registered in MobilityBlock.__init__
MobilityDispatch == {"PlaceSelectionBlock", "MoveBlock", "MobilityNoneBlock"}

\* MobilityBlock.forward: the selected block runs in the coordinator's call,
\* its result is returned unmodified and its exception propagates
MobilityBlock_forward ==
    /\ call = Blank
    /\ \E selected_block \in MobilityDispatch :
        \/ selected_block = "PlaceSelectionBlock" /\ PlaceSelectionBlock_begin("MobilityBlock")
        \/ selected_block = "MoveBlock" /\ MoveBlock_begin("MobilityBlock")
        \/ selected_block = "MobilityNoneBlock" /\ MobilityNoneBlock_begin("MobilityBlock")

\* "return result" of MobilityBlock.forward has handed the result, or the
\* exception, to the caller: the call is over and forward can be awaited again
MobilityBlock_returned ==
    /\ pc = "idle"
    /\ call.entry = "MobilityBlock" /\ call.outcome \in {"returned", "raised"}
    /\ call' = Blank
    /\ UNCHANGED <<pc, position, count, map, ctx, stream, social_vars, consumed, lib_vars>>

----------------------------------------------------------------------------
(* SocialNoneBlock *)

TimeResp == Resp({-5, 10})

\* SocialNoneBlock.forward.  f: the collaborator call that raises; h: the
\* add_social of the except clause raises
SocialNoneBlock_body(c, r, f, h) ==
    LET handler(c0) ==
            IF h THEN Raise(c0, "add_social")
            ELSE LET c1 == Narrate(c0) IN
                 Return(c1, [NoResult EXCEPT !.success = FALSE, !.consumed_time = 5,
                                             !.node_id = NodeId(c1)])
        asked == atext_request(c, r)
    IN  IF ~ctx.plan THEN Raise(c, "KeyError:plan")
        ELSE IF f = "get:emotion_types" THEN Raise(c, f)
        ELSE IF r.kind = "error" THEN Raise(asked, "atext_request")
        ELSE IF r.kind = "nonjson" THEN handler(asked)
        ELSE IF f = "add_social" THEN handler(Failed(asked))
        ELSE LET c1 == Narrate(asked) IN
             IF r.kind = "nokey" THEN handler(c1)
             ELSE Return(c1, [NoResult EXCEPT !.success = TRUE,
                                              !.consumed_time = ParseField(r).val,
                                              !.node_id = NodeId(c1)])

SocialNoneBlock_begin(entry) ==
    /\ pc = "idle"
    /\ \E r \in TimeResp, f \in {"none", "get:emotion_types", "add_social"}, h \in BOOLEAN :
         LET c == SocialNoneBlock_body(Frame("SocialNoneBlock", entry), r, f, h) IN
         /\ stream + c.appends <= MaxStream
         /\ call' = End(c)
         /\ stream' = stream + c.appends
    /\ consumed' = Track(call')
    /\ UNCHANGED <<pc, ctx, mobility_vars, social_vars, lib_vars>>

----------------------------------------------------------------------------
(* FindPersonBlock *)

\* responses to the friend-selection prompt: a failed request, text eval()
\* cannot unpack into two values, or a list [mode, friend_index]
FindPersonResp ==
    {[kind |-> k, mode |-> "", index |-> 0] : k \in {"error", "garbage"}}
    \cup {[kind |-> "value", mode |-> m, index |-> i] :
            m \in {"online", "offline", "phone"}, i \in {0, 1, 5}}

\* max(relationships.items(), key=lambda x: x[1])[0]: the first item of the
\* highest score
MaxScoreId(rel) ==
    LET best == CHOOSE i \in DOMAIN rel :
                    /\ \A j \in DOMAIN rel : rel[j][2] <= rel[i][2]
                    /\ \A j \in DOMAIN rel : rel[j][2] = rel[i][2] => i <= j
    IN  rel[best][1]

\* the record FindPersonBlock.forward returns when there are no friends
\* without its node_id
NoFriendsRecord_null(node_id) ==
    [NoResult EXCEPT !.success = FALSE, !.consumed_time = 5, !.node_id = NoId]

\* the record FindPersonBlock.forward returns when there are no friends
NoFriendsRecord(node_id) ==
    [NoResult EXCEPT !.success = FALSE, !.consumed_time = 5, !.node_id = node_id]

\* FindPersonBlock.forward on the effect e = [c: frame, tgt: context["target"]].
\* f: the collaborator call that raises; h: the add_social of the outer
\* except clause raises.  selection_requests counts the requests to the oracle,
\* resp tells whether the response passed the validation of the inner try.
FindPersonBlock_body(e, r, f, h) ==
    LET handler(e0) ==
            IF h THEN [e0 EXCEPT !.c = Raise(@, "add_social")]
            ELSE LET c1 == Narrate(e0.c) IN
                 [e0 EXCEPT !.c = Return(c1, [NoResult EXCEPT !.success = FALSE,
                                                 !.consumed_time = 5,
                                                 !.node_id = NodeId(c1)])]
        failing == [e EXCEPT !.c = Failed(@)]
        asked == [e EXCEPT !.c = [atext_request(@, r) EXCEPT !.selection_requests = @ + 1]]
    IN  IF f \in {"get:friends", "get:relationships"} THEN handler(failing)
        ELSE IF friends = <<>>
        THEN IF f = "add_social" THEN handler(failing)
             ELSE LET c1 == Narrate(e.c) IN
                  [e EXCEPT !.c = Return(c1, NoFriendsRecord(NodeId(c1)))]
        ELSE IF f = "get:profile" THEN handler(failing)
        ELSE IF r.kind = "error" THEN handler([asked EXCEPT !.c = Failed(@)])
        ELSE LET index_to_id == [i \in 0..(Len(friends) - 1) |-> friends[i + 1]]
                 valid == /\ r.kind = "value"
                          /\ r.mode \in {"online", "offline"}
                          /\ r.index \in DOMAIN index_to_id
                 target == IF valid THEN index_to_id[r.index]
                           ELSE IF relationships # <<>> THEN MaxScoreId(relationships)
                           ELSE friends[1]
                 mode == IF valid THEN r.mode ELSE "online"
                 e1 == IF valid THEN [asked EXCEPT !.tgt = target,
                                                   !.c = [Produce(@, "target") EXCEPT
                                                             !.resp = "valid"]]
                       ELSE [asked EXCEPT !.c.resp = "invalid"]
             IN  IF f = "add_social" THEN handler([e1 EXCEPT !.c = Failed(@)])
                 ELSE LET c1 == Narrate(e1.c) IN
                      [e1 EXCEPT !.c = Return(c1, [NoResult EXCEPT !.success = TRUE,
                                                      !.consumed_time = 15,
                                                      !.mode = mode,
                                                      !.target = target,
                                                      !.node_id = NodeId(c1)])]

FindPersonFailures == {"none", "get:friends", "get:relationships", "get:profile", "add_social"}

\* the inputs of one call of FindPersonBlock.forward: the response r is read
\* only when the request is reached, h only when the outer except clause runs
FindPersonInputs ==
    {[r |-> r, f |-> f, h |-> h] :
        r \in FindPersonResp, f \in FindPersonFailures, h \in BOOLEAN}
FindPersonCases ==
    {i \in FindPersonInputs :
        /\ i.f \in {"get:friends", "get:relationships", "get:profile"}
               => i.r.kind = "error"
        /\ (i.f = "none" /\ i.r.kind # "error") => ~i.h}

FindPersonBlock_begin(entry) ==
    /\ pc = "idle"
    /\ \E i \in FindPersonCases :
         LET e == FindPersonBlock_body([c |-> Frame("FindPersonBlock", entry),
                                        tgt |-> ctx.target], i.r, i.f, i.h) IN
         /\ stream + e.c.appends <= MaxStream
         /\ call' = End(e.c)
         /\ stream' = stream + e.c.appends
         /\ ctx' = [ctx EXCEPT !.target = e.tgt]
    /\ consumed' = Track(call')
    /\ UNCHANGED <<pc, mobility_vars, social_vars, lib_vars>>

----------------------------------------------------------------------------
(* MessageBlock *)

\* responses to the message prompt: a failed request, an empty text, a text
MessageResp ==
    {[kind |-> "error", val |-> ""], [kind |-> "value", val |-> ""],
     [kind |-> "value", val |-> "hi"]}

\* the except clause of MessageBlock.forward; h: its add_social raises
MessageBlock_handler(c, h) ==
    IF h THEN Raise(c, "add_social")
    ELSE LET c1 == Narrate(c) IN
         Return(c1, [NoResult EXCEPT !.success = FALSE, !.consumed_time = 5,
                                     !.node_id = NodeId(c1)])

\* the record MessageBlock.forward returns when contact selection has failed
\* without the node_id of result
NoTargetRecord_null(result) ==
    [NoResult EXCEPT !.success = FALSE, !.consumed_time = 5, !.node_id = NoId]

\* the record MessageBlock.forward returns when contact selection has failed
NoTargetRecord(result) ==
    [NoResult EXCEPT !.success = FALSE, !.consumed_time = 5, !.node_id = result.node_id]

\* MessageBlock.forward up to "target = result['target']": the target of
\* Context, or the nested FindPersonBlock.forward; h (the add_social of the
\* except clause raises) is read only when the nested call has raised
MessageBlock_begin(entry) ==
    /\ pc = "idle"
    /\ LET c == Frame("MessageBlock", entry) IN
       IF ctx.target # NoId
       THEN /\ call' = [Consume(c, "target") EXCEPT !.target = ctx.target]
            /\ pc' = "compose"
            /\ UNCHANGED <<ctx, stream>>
       ELSE \E i \in FindPersonCases :
            \E h \in IF i.h THEN BOOLEAN ELSE {FALSE} :
              LET e == FindPersonBlock_body([c |-> [c EXCEPT !.nested = TRUE],
                                             tgt |-> ctx.target], i.r, i.f, i.h)
                  result == e.c.result
                  c1 == IF e.c.outcome = "raised"
                        THEN MessageBlock_handler(
                                 [e.c EXCEPT !.outcome = "running", !.exc = ""], h)
                        ELSE IF ~result.success
                        THEN Return([e.c EXCEPT !.found = result], NoTargetRecord(result))
                        ELSE [e.c EXCEPT !.outcome = "running", !.result = NoResult,
                                         !.found = result, !.target = result.target]
              IN  /\ stream + c1.appends <= MaxStream
                  /\ call' = End(c1)
                  /\ stream' = stream + c1.appends
                  /\ ctx' = [ctx EXCEPT !.target = e.tgt]
                  /\ pc' = IF c1.outcome = "running" THEN "compose" ELSE "idle"
    /\ consumed' = Track(call')
    /\ UNCHANGED <<mobility_vars, social_vars, lib_vars>>

\* the targets whose stored chat history differs from chat, each with the
\* number of entries chat has more
HistoryChange(chat) ==
    {<<t, Len(chat[t]) - Len(chat_histories[t])>> :
        t \in {u \in Targets : chat[u] # chat_histories[u]}}

\* MessageBlock.forward from the prompt on: prompt, request, chat history,
\* status.update, send_message_to_agent, add_social.  aliased: status.get
\* returned the stored dict itself, so that the in-place change of the chat
\* history is a change of the status before status.update is called
MessageCompose ==
    /\ pc = "compose"
    /\ \E r \in MessageResp,
          f \in {"none", "get:prompt", "get:chat_histories", "update:chat_histories",
                 "send_message_to_agent", "add_social"},
          h \in BOOLEAN :
       \E aliased \in IF f = "update:chat_histories" THEN BOOLEAN ELSE {FALSE} :
         LET target == call.target
             message == IF r.val = "" THEN "Hello! How are you?" ELSE r.val
             stored == \E t \in Targets : chat_histories[t] # <<>>
             updated == [chat_histories EXCEPT ![target] = Append(@, message)]
             c0 == IF f = "get:prompt" THEN call ELSE atext_request(call, r)
             fail == [Failed(c0) EXCEPT !.fault = f]
             delivered == [c0 EXCEPT !.sent = Append(@, <<target, message, 1>>)]
             Finish(c, chat) ==
                 /\ \A t \in Targets : Len(chat[t]) <= MaxChat
                 /\ stream + (c.appends - call.appends) <= MaxStream
                 /\ call' = End([c EXCEPT !.history = HistoryChange(chat)])
                 /\ stream' = stream + (c.appends - call.appends)
                 /\ chat_histories' = chat
         IN  IF f = "get:prompt" \/ r.kind = "error" \/ f = "get:chat_histories"
             THEN Finish(MessageBlock_handler(fail, h), chat_histories)
             ELSE IF f = "update:chat_histories"
             THEN Finish(MessageBlock_handler(fail, h),
                         IF aliased /\ stored THEN updated ELSE chat_histories)
             ELSE IF f = "send_message_to_agent"
             THEN Finish(MessageBlock_handler(fail, h), updated)
             ELSE IF f = "add_social"
             THEN Finish(MessageBlock_handler([Failed(delivered) EXCEPT !.fault = f], h),
                         updated)
             ELSE LET c1 == Narrate(delivered) IN
                  Finish(Return(c1, [NoResult EXCEPT !.success = TRUE,
                                                     !.consumed_time = 10,
                                                     !.message = message,
                                                     !.target = target,
                                                     !.node_id = NodeId(c1)]),
                         updated)
    /\ pc' = "idle"
    /\ consumed' = Track(call')
    /\ UNCHANGED <<ctx, mobility_vars, friends, relationships, lib_vars>>

----------------------------------------------------------------------------
(* SocialBlock *)

\* BlockDispatcher.dispatch over the blocks registered in SocialBlock.__init__
SocialDispatch == {"FindPersonBlock", "MessageBlock", "SocialNoneBlock"}

\* SocialBlock.forward
SocialBlock_forward ==
    /\ call = Blank
    /\ \E selected_block \in SocialDispatch :
        \/ selected_block = "FindPersonBlock" /\ FindPersonBlock_begin("SocialBlock")
        \/ selected_block = "MessageBlock" /\ MessageBlock_begin("SocialBlock")
        \/ selected_block = "SocialNoneBlock" /\ SocialNoneBlock_begin("SocialBlock")

\* "return result" and the except clause of SocialBlock.forward have handed
\* the result to the caller: the call is over and forward can be awaited again
SocialBlock_returned ==
    /\ pc = "idle"
    /\ call.entry = "SocialBlock" /\ call.outcome \in {"returned", "raised"}
    /\ call' = Blank
    /\ UNCHANGED <<pc, ctx, stream, mobility_vars, social_vars, consumed, lib_vars>>

----------------------------------------------------------------------------
(* Specification of the mobility blocks *)

Init ==
    /\ pc = "idle"
    /\ position \in Positions
    /\ count = 0
    /\ map \in Maps
    /\ ctx \in [plan : BOOLEAN, next_place : {NoPlace}, target : {NoId}]
    /\ stream = 0
    /\ friends = <<>>
    /\ relationships = <<>>
    /\ chat_histories = [t \in Targets |-> <<>>]
    /\ call = Blank
    /\ consumed = {}
    /\ gm = NoCall
    /\ NoUnits
    /\ NoState

Next ==
    \/ MobilityBlock_forward
    \/ MobilityBlock_returned
    \/ PlaceSelectionStage2
    \/ PlaceSelectionRadius
    \/ PlaceSelectionQuery
    \/ RandomPoiNoArea
    \/ RandomPoiRetry
    \/ RandomPoiFound

Spec == Init /\ [][Next]_vars

----------------------------------------------------------------------------
(* Specification of the social blocks *)

SocialInit ==
    /\ pc = "idle"
    /\ position = HomeId
    /\ count = 0
    /\ map = [aois |-> <<>>, pois |-> <<>>]
    /\ ctx \in [plan : BOOLEAN, next_place : {NoPlace}, target : {NoId, 1}]
    /\ stream = 0
    /\ friends \in {<<>>, <<1, 2>>}
    /\ relationships \in {<<>>, << <<1, 10>>, <<2, 50>> >>, << <<3, 90>>, <<1, 10>> >>}
    /\ chat_histories = [t \in Targets |-> <<>>]
    /\ call = Blank
    /\ consumed = {}
    /\ gm = NoCall
    /\ NoUnits
    /\ NoState

SocialNext ==
    \/ SocialBlock_forward
    \/ SocialBlock_returned
    \/ MessageCompose

SocialSpec == SocialInit /\ [][SocialNext]_vars

----------------------------------------------------------------------------
(* Specification of the mobility blocks under fair scheduling: a started    *)
(* coroutine is run on, and random.choice(aois) draws every area of the     *)
(* list again and again.                                                    *)

FairSpec ==
    /\ Init /\ [][Next]_vars
    /\ WF_vars(RandomPoiNoArea \/ RandomPoiRetry \/ RandomPoiFound)
    /\ WF_vars(RandomPoiFound)

----------------------------------------------------------------------------
(* Specification of gravity_model as a function of its argument and of the  *)
(* sample drawn                                                             *)

\* no block has run
NoBlocks ==
    /\ pc = "idle"
    /\ position = HomeId
    /\ count = 0
    /\ map = [aois |-> <<>>, pois |-> <<>>]
    /\ ctx = [plan |-> TRUE, next_place |-> NoPlace, target |-> NoId]
    /\ stream = 0
    /\ friends = <<>>
    /\ relationships = <<>>
    /\ chat_histories = [t \in Targets |-> <<>>]
    /\ call = Blank
    /\ consumed = {}

GravityInit ==
    /\ NoBlocks
    /\ gm \in {[NoCall EXCEPT !.pois = pois] : pois \in Candidates}
    /\ NoUnits
    /\ NoState

GravitySpec == GravityInit /\ [][GravityCall]_vars

----------------------------------------------------------------------------
(* Specification of the MemoryUnit instances *)

UnitInit ==
    /\ NoBlocks
    /\ gm = NoCall
    /\ NoUnits
    /\ NoState

UnitNext ==
    \E u \in Units :
        \/ MemoryUnit_init(u)
        \/ MemoryUnit_update(u)
        \/ MemoryUnit_clear(u)

UnitSpec == UnitInit /\ [][UnitNext]_vars

-----------------------------------------------------------------------------
(* Specification of one StateMemory under any sequence of its operations    *)

StateInit ==
    /\ NoBlocks
    /\ gm = NoCall
    /\ NoUnits
    /\ NoState

StateNext ==
    \/ StateMemory_add
    \/ StateMemory_pop
    \/ StateMemory_load
    \/ StateMemory_reset
    \/ StateMemory_fetch
    \/ StateMemory_read

StateSpec == StateInit /\ [][StateNext]_vars

----------------------------------------------------------------------------
(* Properties *)

Ended == pc = "idle" /\ call.outcome \in {"returned", "raised"}

\* the exceptions a collaborator call raised and no handler caught
CollaboratorFailure == call.outcome = "raised" /\ call.exc \notin InternalErrors

\* C1: MobilityBlock.forward and SocialBlock.forward never propagate an
\* exception: whenever the selected behavior unit fails, the coordinator
\* returns a ResultRecord with success = false.
C1_CoordinatorNeverPropagates ==
    (Ended /\ call.entry \in {"MobilityBlock", "SocialBlock"})
        => /\ call.top_outcome = "returned"
           /\ call.outcome = "raised" => call.top_result.success = FALSE

\* C2: forward of PlaceSelectionBlock, MoveBlock, MobilityNoneBlock and
\* SocialNoneBlock never propagates an exception: whenever a collaborator
\* call fails during the call, forward returns success = false and has
\* appended one failure narration.
C2_UnitsNeverPropagate ==
    (Ended /\ call.op \in {"PlaceSelectionBlock", "MoveBlock", "MobilityNoneBlock",
                           "SocialNoneBlock"})
        => /\ call.outcome = "returned"
           /\ call.failed => (call.result.success = FALSE /\ call.appends = 1)

\* r is a failure record that carries the id of a narrative append of this call
NarratedFailure(r) ==
    /\ call.appends >= 1
    /\ r.node_id # NoId
    /\ r.node_id \in (stream - call.appends + 1)..stream

\* C3: every ResultRecord with success = false returned by a behavior unit or
\* by a coordinator comes with a narrative append of the same forward call and
\* its node_id is the non-null id returned by that append.
C3_FailureIsNarrated ==
    Ended =>
        /\ (call.outcome = "returned" /\ ~call.result.success)
               => NarratedFailure(call.result)
        /\ (call.top_outcome = "returned" /\ ~call.top_result.success)
               => NarratedFailure(call.top_result)

\* C4: whenever MoveBlock.forward runs while the position equals the resolved
\* destination (home, workplace or the custom destination), it returns
\* consumed_time = 0, does not call set_aoi_schedules and leaves
\* number_poi_visited unchanged.
C4_AlreadyThereIsNoMove ==
    (call.op = "MoveBlock" /\ call.outcome = "returned"
        /\ call.dest # NoId /\ call.dest = position)
        => /\ call.result.consumed_time = 0
           /\ call.sched = <<>>
           /\ count = call.count0

ClassificationFailed ==
    \/ call.resp \in {"error", "nonjson", "nokey"}
    \/ call.resp = "value" /\ call.kind \notin {"home", "workplace", "other"}

\* C6: in MoveBlock every classification failure (request error, text that is
\* not JSON, JSON without place_type, place_type outside {home, workplace,
\* other}) resolves the destination kind to home: the move is executed towards
\* the home id, never towards the custom destination.
C6_FailureMovesHome ==
    (call.op = "MoveBlock" /\ ClassificationFailed)
        => /\ pc # "random_poi"
           /\ call.dest \in {NoId, HomeId}
           /\ \A i \in DOMAIN call.sched : call.sched[i] = <<AgentId, HomeId>>
           /\ call.outcome = "returned" => call.result.to_place = HomeId

\* C7: MoveBlock.forward always terminates once started: the random
\* point-of-interest fallback ends for every state of the map.
C7_RandomPoiTerminates == (pc = "random_poi") ~> (pc = "idle")

\* C8: PlaceSelectionBlock.forward, when the map query returns no points of
\* interest (and no collaborator call raises), does not raise, publishes a
\* place of the inventory of get_pois and returns success = true, for every
\* inventory, an empty one included.
C8_EmptyQueryFallsBack ==
    (call.op = "PlaceSelectionBlock" /\ Ended /\ call.qempty /\ ~CollaboratorFailure)
        => /\ call.outcome = "returned"
           /\ call.result.success
           /\ ctx.next_place.id \in Range(map.pois)

\* C9: after every successful PlaceSelectionBlock.forward context["next_place"]
\* is a (name, id) pair of one place, on the gravity-model path and on the
\* fallback path alike, so that a following MoveBlock._move_custom schedules
\* the relocation to that place's id.
C9_NextPlaceIsPair ==
    /\ (call.op = "PlaceSelectionBlock" /\ call.outcome = "returned"
           /\ call.result.success)
          => /\ ctx.next_place.kind = "pair"
             /\ ctx.next_place.name = NameOf(ctx.next_place.id)
             /\ ctx.next_place.id = call.dest
    /\ (call.op = "MoveBlock" /\ Ended /\ call.kind \notin {"home", "workplace"}
           /\ ctx.next_place # NoPlace /\ ~CollaboratorFailure)
          => /\ call.outcome = "returned"
             /\ call.sched = << <<AgentId, ctx.next_place.id>> >>
             /\ call.result.to_place = ctx.next_place.id

\* C10: in PlaceSelectionBlock.forward, whatever the oracle returns at either
\* stage, the coarse category is a key of the category map and the
\* sub-category passed to the map query as category_prefix is a member of that
\* coarse category's list of sub-categories.
C10_LabelsAreOffered ==
    (call.op = "PlaceSelectionBlock" /\ call.prefix # "")
        => /\ call.l1 \in DOMAIN poi_cate
           /\ call.prefix \in Range(poi_cate[call.l1])

\* C11: the radius PlaceSelectionBlock.forward passes to query_pois is always
\* an integer in [3000, 200000]: the oracle's value when it lies in the range,
\* 10000 whenever the request errors, the text is not JSON, the key is missing
\* or the value lies outside the range.
C11_RadiusInRange ==
    (call.op = "PlaceSelectionBlock" /\ call.prefix # "")
        => call.radius \in 3000..200000

\* the weights of the list gravity_model returned
GravityWeightsSumToOne ==
    LET t == total_weight(gm.out) IN t.num = t.den

\* C12: for every non-empty candidate list, lists shorter than the sample
\* size and lists whose candidates all lie at 10000 m or more included,
\* gravity_model returns a non-empty list of at most sample-size entries whose
\* weights are non-negative, finite and sum to 1.
C12_GravityReturnsDistribution ==
    (gm.pois # <<>> /\ gm.outcome # "")
        => /\ gm.outcome = "returned"
           /\ gm.out # <<>>
           /\ Len(gm.out) <= SampleSize
           /\ \A k \in DOMAIN gm.out :
                  gm.out[k].weight.den > 0 /\ gm.out[k].weight.num >= 0
           /\ GravityWeightsSumToOne

\* C13: FindPersonBlock.forward with an empty or missing friends list, when
\* the narrative log takes the append, returns success = false with the
\* non-null node_id of exactly one narrative append, makes no request to the
\* oracle and leaves Context unchanged.
C13_NoFriendsFails ==
    (call.op = "FindPersonBlock" /\ Ended /\ friends = <<>> /\ ~CollaboratorFailure)
        => /\ call.outcome = "returned"
           /\ call.result.success = FALSE
           /\ call.appends = 1
           /\ call.result.node_id # NoId
           /\ call.result.node_id = stream
           /\ call.selection_requests = 0
           /\ ctx.target = call.target0

\* the friends list is empty, Context holds a target, and the call has returned
C13_Witness ==
    /\ call.op = "FindPersonBlock" /\ call.outcome = "returned"
    /\ friends = <<>> /\ ~call.failed
    /\ call.target0 # NoId
    /\ call.result.node_id = 1

\* relationships.get(friend_id, 0)
ScoreOf(id) ==
    IF \E i \in DOMAIN relationships : relationships[i][1] = id
    THEN relationships[CHOOSE i \in DOMAIN relationships : relationships[i][1] = id][2]
    ELSE 0

\* C14: in FindPersonBlock.forward with a non-empty friends list, on every
\* validation failure of the oracle response the returned target is the
\* friend with the highest relationship score (the first friend when no
\* scores exist) and the returned mode is online; the target is a member of
\* the friends list also when relationships holds scores of agents that are
\* not friends.
C14_FallbackIsBestFriend ==
    (call.op = "FindPersonBlock" /\ call.outcome = "returned" /\ call.result.success
        /\ friends # <<>> /\ call.resp = "invalid")
        => /\ call.result.mode = "online"
           /\ call.result.target \in Range(friends)
           /\ \A g \in Range(friends) : ScoreOf(g) <= ScoreOf(call.result.target)
           /\ relationships = <<>> => call.result.target = friends[1]

\* C15: whenever FindPersonBlock.forward returns success = true with target
\* t, Context holds target = t on return, when the oracle's choice was
\* validated and when the highest-score fallback was taken.
C15_TargetIsPublished ==
    (call.op = "FindPersonBlock" /\ call.outcome = "returned" /\ call.result.success)
        => ctx.target = call.result.target

\* C16: every call of MessageBlock.forward adds exactly one new entry to the
\* chat history of the resolved target, never none (also when contact
\* selection fails, the oracle errors or the send fails) and never more than
\* one, and leaves the chat histories of all other targets unchanged.
C16_OneHistoryEntryPerCall ==
    (call.op = "MessageBlock" /\ Ended)
        => \E t \in Targets :
              /\ call.history = {<<t, 1>>}
              /\ call.target # NoId => t = call.target

\* C17: in MessageBlock.forward every exception raised at any step (reading
\* the target, contact selection, prompt assembly, oracle request, status
\* update, transport send, narrative append) is caught and converted to a
\* ResultRecord with success = false; the exception handler itself never
\* raises, also when the failure occurs before a target has been resolved.
C17_MessageNeverRaises ==
    (call.op = "MessageBlock" /\ Ended)
        => /\ call.outcome = "returned"
           /\ call.failed => call.result.success = FALSE

\* C18: MobilityNoneBlock.forward and SocialNoneBlock.forward return, for
\* every step and every behaviour of the oracle (Context holding a plan and
\* the memory store not failing), a ResultRecord with success = true and consumed_time = 0 after
\* exactly one narrative append, without scheduling a relocation, sending a
\* message or updating the agent status.
C18_NoOpIsZeroTimeSuccess ==
    (call.op \in {"MobilityNoneBlock", "SocialNoneBlock"} /\ Ended /\ ctx.plan
        /\ (CollaboratorFailure => call.exc = "atext_request"))
        => /\ call.outcome = "returned"
           /\ call.result.success
           /\ call.result.consumed_time = 0
           /\ call.appends = 1
           /\ call.sched = <<>> /\ call.sent = <<>>
           /\ count = call.count0 /\ call.history = {}

\* C19: every ResultRecord a behavior unit or a coordinator returns, on every
\* path and for every response of the oracle, has a consumed_time >= 0, the
\* record of SocialNoneBlock with the oracle's time field included.
C19_ConsumedTimeNonNegative ==
    /\ call.outcome = "returned" => call.result.consumed_time >= 0
    /\ call.top_outcome = "returned" => call.top_result.consumed_time >= 0

\* C20: each call of MobilityBlock.forward or SocialBlock.forward whose
\* behavior unit does not fail executes forward of exactly one behavior unit
\* at top level, one of the three units registered at construction, exactly
\* once and with the caller's Context, and returns that unit's ResultRecord
\* unmodified.
C20_CoordinatorReturnsUnitResult ==
    (Ended /\ call.entry \in {"MobilityBlock", "SocialBlock"} /\ call.outcome = "returned")
        => /\ call.units = <<call.op>>
           /\ call.op \in (IF call.entry = "MobilityBlock" THEN MobilityDispatch
                            ELSE SocialDispatch)
           /\ call.top_outcome = "returned"
           /\ call.top_result = call.result

\* SocialBlock.forward has run FindPersonBlock, which has selected a friend
C20_Witness ==
    /\ Ended /\ call.entry = "SocialBlock" /\ call.op = "FindPersonBlock"
    /\ call.top_outcome = "returned"
    /\ call.top_result.success /\ call.top_result.target \in Range(friends)
    /\ call.top_result.node_id # NoId

\* the oracle requests one forward call of the unit may issue
MaxRequests ==
    [op \in {"PlaceSelectionBlock", "MoveBlock", "MobilityNoneBlock", "FindPersonBlock",
             "SocialNoneBlock", "MessageBlock"} |->
        IF op = "PlaceSelectionBlock" THEN 3
        ELSE IF op = "MessageBlock" THEN 2
        ELSE IF op = "MobilityNoneBlock" THEN 0
        ELSE 1]

\* C21: no request to the oracle is retried: within one forward call each
\* call site issues at most one request, so PlaceSelectionBlock issues at most
\* 3 requests, MoveBlock, FindPersonBlock and SocialNoneBlock at most 1 and
\* MessageBlock at most 2, one of them inside contact selection.
C21_NoRequestIsRetried ==
    call.op # ""
        => /\ call.requests <= MaxRequests[call.op]
           /\ call.op = "MessageBlock"
                 => /\ call.selection_requests <= 1
                    /\ call.requests - call.selection_requests <= 1
                    /\ ~call.nested => call.selection_requests = 0

\* PlaceSelectionBlock.forward has ended after a failed request
C21_Witness ==
    /\ call.op = "PlaceSelectionBlock" /\ Ended
    /\ call.failed /\ call.requests = 3

\* C22: the Context entry a selection behavior writes (next_place by
\* PlaceSelectionBlock, target by FindPersonBlock) is consumed by exactly one
\* downstream behavior in the same dispatch: a behavior consumes an entry
\* only within the top-level forward call that produced it, and an entry
\* MoveBlock or MessageBlock has consumed is not consumed again by a later
\* behavior execution on that Context.
C22_EntryConsumedOnce ==
    call.consumes # ""
        => /\ call.consumes \in call.produced
           /\ ~call.again

\* C23: MemoryUnit.update never rejects an update on a type mismatch: after
\* update(content) every key of content maps to its value in content, also
\* when the type differs from the prior value's (a warning is logged), and
\* every key not in content keeps its prior value.
C23_UpdateNeverRejects ==
    mu.op = "update"
        => \A k \in Keys :
              /\ k \in KeysOf(mu.content) => _content[mu.unit].dict[k] = mu.content[k]
              /\ k \notin KeysOf(mu.content) => _content[mu.unit].dict[k] = mu.before[k]

\* an update has changed the type of a stored value and kept another key
C23_Witness ==
    /\ mu.op = "update" /\ mu.warned
    /\ mu.before["motion"].type = "int" /\ mu.content["motion"].type = "str"
    /\ _content[mu.unit].dict["motion"].type = "str"
    /\ mu.content[TIME_STAMP_KEY] = Absent /\ mu.before[TIME_STAMP_KEY] # Absent

\* C24: for three candidates at 500, 500 and 9500 m gravity_model computes
\* the density 2 / area(ring 1) for the two near candidates and
\* 1 / area(ring 10) for the far one, with area(ring d) =
\* pi * ((d * 1000)^2 - ((d - 1) * 1000)^2), and the raw weight
\* density / distance^2 of each near candidate is strictly greater than the
\* far candidate's before the resampling.
C24_NearOutweighsFar ==
    (gm.pois = NearNearFar /\ gm.outcome # "")
        => /\ Len(gm.res) = 3
           /\ gm.res[1].density = [num |-> 2, den |-> 1]
           /\ gm.res[2].density = [num |-> 2, den |-> 1]
           /\ gm.res[3].density = [num |-> 1, den |-> 10 * 10 - 9 * 9]
           /\ \A i \in 1..3 :
                  gm.res[i].weight = [num |-> gm.res[i].density.num,
                                      den |-> gm.res[i].density.den
                                                 * gm.pois[i][2] * gm.pois[i][2]]
           /\ RatLess(gm.res[3].weight, gm.res[1].weight)
           /\ RatLess(gm.res[3].weight, gm.res[2].weight)

\* gravity_model has returned for the three candidates, the far one sampled
C24_Witness ==
    /\ gm.pois = NearNearFar /\ gm.outcome = "returned"
    /\ \E k \in DOMAIN gm.out : gm.out[k].distance = 9500
    /\ \E k \in DOMAIN gm.out : gm.out[k].distance = 500

\* C25: the second pass of gravity_model gives a raw weight and a resampling
\* probability to every candidate the first pass bucketed, those of the
\* overflow bucket (10000 m and more) included: res has exactly one entry for
\* each input candidate, in the order of the input.
C25_EveryCandidateIsWeighted ==
    gm.outcome = "returned"
        => /\ Len(gm.res) = Len(gm.pois)
           /\ \A i \in DOMAIN gm.res : gm.res[i].id = gm.pois[i][1]

\* C26: MessageBlock.forward resolves its target in this order: when Context
\* holds a target FindPersonBlock is not invoked and the message goes to that
\* target; otherwise FindPersonBlock.forward is invoked once before any
\* message is generated, and when it returns a failure MessageBlock returns
\* success = false with FindPersonBlock's node_id, sends nothing and leaves
\* the chat history unchanged; when it succeeds the message is sent to
\* exactly the target it returned.
C26_TargetResolutionOrder ==
    call.op = "MessageBlock"
        => /\ call.target0 # NoId
                => /\ ~call.nested /\ call.selection_requests = 0
                   /\ \A i \in DOMAIN call.sent : call.sent[i][1] = call.target0
           /\ call.target0 = NoId => call.nested
           /\ pc = "compose"
                => /\ call.requests = call.selection_requests
                   /\ call.sent = <<>> /\ call.history = {}
           /\ (call.nested /\ ~call.found.success /\ call.found.node_id # NoId)
                => /\ call.outcome = "returned"
                   /\ call.result.success = FALSE
                   /\ call.result.node_id = call.found.node_id
                   /\ call.requests = call.selection_requests
                   /\ call.sent = <<>> /\ call.history = {}
           /\ (call.nested /\ call.found.success)
                => /\ call.selection_requests = 1
                   /\ \A i \in DOMAIN call.sent : call.sent[i][1] = call.found.target
                   /\ \A h \in call.history : h[1] = call.found.target

\* contact selection has failed inside MessageBlock.forward
C26_Witness ==
    /\ call.op = "MessageBlock" /\ Ended /\ call.nested
    /\ ~call.found.success /\ call.found.node_id # NoId
    /\ call.result.node_id = 1

\* C27: chat history and delivery stay consistent in MessageBlock.forward
\* (status.update not failing): the chat history of a target gains an entry
\* only if a message was delivered to that target through
\* send_message_to_agent in the same call, and when the transport send fails
\* the call returns success = false and the stored chat_histories are the
\* same as before the call.
C27_HistoryOnlyIfDelivered ==
    (call.op = "MessageBlock" /\ Ended /\ call.fault # "update:chat_histories")
        => /\ \A h \in call.history :
                 \E i \in DOMAIN call.sent : call.sent[i][1] = h[1]
           /\ (call.fault = "send_message_to_agent" /\ call.outcome = "returned")
                => /\ call.result.success = FALSE
                   /\ call.history = {}

\* C28: StateMemory.pop(index) removes and returns the unit at position index
\* of the insertion order (a negative index counting from the end, as list
\* indexing does) and leaves the other units and their order unchanged; for
\* every index out of range it raises ValueError and leaves the memory
\* unchanged.
C28_PopRemovesOrRaises ==
    sm.op = "pop"
        => LET n == Len(sm.before)
               p == IF sm.index < 0 THEN n + sm.index + 1 ELSE sm.index + 1
           IN  IF -n <= sm.index /\ sm.index < n
               THEN /\ sm.outcome = "returned"
                    /\ sm.result = <<sm.before[p]>>
                    /\ Len(_memories) = n - 1
                    /\ \A i \in 1 .. n - 1 :
                          _memories[i] = sm.before[IF i < p THEN i ELSE i + 1]
               ELSE /\ sm.outcome = "raised" /\ sm.exc = "ValueError"
                    /\ _memories = sm.before

\* pop has raised on a memory of two units
C28_Witness ==
    /\ sm.op = "pop" /\ sm.outcome = "raised"
    /\ Len(sm.before) = 2 /\ _memories = sm.before

\* the position of the first occurrence of unit in list
First(unit, list) == CHOOSE i \in DOMAIN list : list[i] = unit /\ \A j \in 1 .. i - 1 : list[j] # unit

C30_FetchReturnsMostRecent ==
    LET size == Len(sm.before)
        k == IF sm.recent_n.n < size THEN sm.recent_n.n ELSE size
    IN  /\ sm.op = "_fetch_recent_memory"
              => /\ _memories = sm.before
                 /\ sm.result = IF sm.recent_n.none THEN sm.before
                                 ELSE SubSeq(sm.before, size - k + 1, size)
        /\ (sm.op \in {"motion", "position"} /\ sm.outcome = "returned")
              => /\ _memories = sm.before
                 /\ sm.result = <<sm.before[size]>>

\* C31: the attribute view of a MemoryUnit always reflects that unit's own
\* current content: after any sequence of construction, update and clear on
\* any number of instances, for every constructed unit u and key k, u.k
\* equals u[k] when k is in u's content, and k is not readable as an
\* attribute of u when k is not in u's content.  u.k is readable when the
\* class has the property k; it gives the instance attribute, None without one.
C31_AttributesReflectContent ==
    \A u \in Units : _content[u].made
        => \A k \in Keys :
              IF k \in KeysOf(_content[u].dict)
              THEN k \in properties /\ attributes[u][k] = _content[u].dict[k]
              ELSE k \notin properties

====
